---- MODULE Spec2Model ----
(***************************************************************************)
(* Model of the wine-catalog HTTP backend (express + mongoose).            *)
(*                                                                         *)
(* Two deployments of the same entity exist in the repository:             *)
(*   "baseline"  src/server.js          (rating / kind)                    *)
(*   "extended"  src/unnamed/part_001   (price / variety / country, plus   *)
(*                                       users, login and secrets)         *)
(* A handler that awaits a single store call is one action: the store      *)
(* executes calls one at a time, so an interleaving of such handlers is    *)
(* the sequence of their store calls.  The /secrets routes await several   *)
(* calls (the gate's lookup, then the handler's own) and are modelled with *)
(* one step per awaited call.  out holds what the handler that finished    *)
(* last sent back, together with the request it answered.                  *)
(***************************************************************************)
EXTENDS Integers, Sequences, FiniteSets, TLC

VARIABLES
  variant,      \* which deployment runs: "baseline" or "extended"
  wines,        \* the wines collection: a set of documents
  nextWineId,   \* the next _id the store assigns to a wine
  users,        \* the users collection
  nextUserId,   \* the next _id (and token number) assigned to a user
  secrets,      \* the secrets collection
  nextSecretId, \* the next _id assigned to a secret
  reqs,         \* /secrets requests in flight: slot -> request record
  out           \* what the handler that finished last sent back

vars == <<variant, wines, nextWineId, users, nextUserId, secrets,
          nextSecretId, reqs, out>>

wineVars == <<variant, wines, nextWineId>>
accountVars == <<users, nextUserId>>
secretVars == <<secrets, nextSecretId, reqs>>

(***************************************************************************)
(* Bounds of the model.                                                    *)
(***************************************************************************)
\* how many wine documents POST /wines may create in one behaviour
MaxWineCreates == 2
\* how many /secrets requests may be in flight at once
MaxInflight == 2
\* how many secrets POST /secrets may create in one behaviour
MaxSecrets == 2

Slots == 1..MaxInflight

(***************************************************************************)
(* JavaScript values: undefined, null, strings (sequences of one-character *)
(* strings) and numbers.                                                   *)
(***************************************************************************)
Undef == [t |-> "undefined"]
Null == [t |-> "null"]
S(s) == [t |-> "string", v |-> s]
N(n) == [t |-> "number", v |-> n]

IsStr(x) == x.t = "string"
IsNum(x) == x.t = "number"

(***************************************************************************)
(* A string is kept run-length encoded: a sequence of <<character, count>> *)
(* runs, adjacent runs holding different characters and every count > 0,   *)
(* so that equal strings have equal encodings and a 301-character string   *)
(* is one run.                                                             *)
(***************************************************************************)
\* the string made of n copies of the character c
Run(c, n) == IF n = 0 THEN <<>> ELSE << <<c, n>> >>

\* the encoding of a sequence of characters
RECURSIVE Pack(_)
Pack(cs) ==
  IF cs = <<>> THEN <<>>
  ELSE LET p == Pack(SubSeq(cs, 1, Len(cs) - 1))
           c == cs[Len(cs)]
       IN IF p # <<>> /\ p[Len(p)][1] = c
          THEN [p EXCEPT ![Len(p)] = <<c, p[Len(p)][2] + 1>>]
          ELSE Append(p, <<c, 1>>)

\* the characters of an encoded string
RECURSIVE Chars(_)
Chars(v) ==
  IF v = <<>> THEN <<>>
  ELSE [i \in 1..v[1][2] |-> v[1][1]] \o Chars(Tail(v))

\* String.prototype.length
RECURSIVE StrLen(_)
StrLen(v) == IF v = <<>> THEN 0 ELSE v[1][2] + StrLen(Tail(v))

\* a string literal
T(cs) == S(Pack(cs))

\* String.prototype.trim, as the schema option trim: true applies it
Trim(v) ==
  LET a == IF v # <<>> /\ v[1][1] = " " THEN Tail(v) ELSE v
  IN IF a # <<>> /\ a[Len(a)][1] = " " THEN SubSeq(a, 1, Len(a) - 1) ELSE a

(***************************************************************************)
(* Program constants: the field constraints of the schemas.                *)
(***************************************************************************)
DescMinLen == 2
DescMaxLen == 300
RatingMin == 1
RatingMax == 5
PriceMin == 1
PriceMax == 1000
KindEnum == {T(<<"r","e","d">>), T(<<"w","h","i","t","e">>), T(<<"r","o","s","e">>),
             T(<<"s","p","a","r","k","l","i","n","g">>), T(<<"o","t","h","e","r">>)}

\* createdAt: default new Date(), evaluated once, when the schema is built
ServerStart == [t |-> "date", v |-> "serverStart"]

(***************************************************************************)
(* The Wine schema.  A document carries every path of both deployments;    *)
(* a path the deployment's schema does not have stays undefined (strict    *)
(* mode drops it).                                                         *)
(***************************************************************************)
\* the setter of a String path with trim: true
TrimSetter(x) == IF IsStr(x) THEN S(Trim(x.v)) ELSE x

\* new Wine(f) in the given deployment, with the _id the store will assign
NewWine(v, f, id) ==
  [ id          |-> id,
    name        |-> f.name,
    description |-> TrimSetter(f.description),
    rating      |-> IF v = "baseline" THEN f.rating ELSE Undef,
    kind        |-> IF v = "baseline" THEN f.kind ELSE Undef,
    price       |-> IF v = "extended" THEN f.price ELSE Undef,
    variety     |-> IF v = "extended" THEN f.variety ELSE Undef,
    country     |-> IF v = "extended" THEN f.country ELSE Undef,
    createdAt   |-> ServerStart ]

\* the required validator: undefined, null and the empty string fail it
Required(x) == x # Undef /\ x # Null /\ (IsStr(x) => StrLen(x.v) > 0)

\* minlength / maxlength: checked only on a present string
LengthIn(x, lo, hi) == IsStr(x) => (lo <= StrLen(x.v) /\ StrLen(x.v) <= hi)

\* min / max: checked only on a present number
NumberIn(x, lo, hi) == IsNum(x) => (lo <= x.v /\ x.v <= hi)

DescriptionValid(x) == Required(x) /\ LengthIn(x, DescMinLen, DescMaxLen)

\* document validation, run by save() before the insert is sent
ValidWine(v, d) ==
  /\ Required(d.name)
  /\ DescriptionValid(d.description)
  /\ IF v = "baseline"
     THEN /\ Required(d.rating) /\ NumberIn(d.rating, RatingMin, RatingMax)
          /\ Required(d.kind) /\ d.kind \in KindEnum
     ELSE /\ NumberIn(d.price, PriceMin, PriceMax)
          /\ Required(d.variety)

\* a store whose unique index on name was never built
NameIndexAdmits_NoIndex(store, d) == TRUE

\* the unique index on name: the store rejects an insert whose name is taken
NameIndexAdmits(store, d) == \A w \in store : w.name # d.name


(***************************************************************************)
(* The wines a freshly started server may find in its store: none, or the  *)
(* data set resetDatabase() loads (each document saved through the         *)
(* schema).                                                                *)
(***************************************************************************)
Red == <<"r","e","d">>
Rose == <<"r","o","s","e">>

WineData ==
  { [name |-> T(<<"M">>), description |-> T(<<"d","r","y">>), rating |-> N(4),
     kind |-> T(Red), price |-> N(10), variety |-> T(Red),
     country |-> T(<<"F","R">>)],
    [name |-> T(<<"R">>), description |-> T(<<"p","a","l","e">>), rating |-> N(2),
     kind |-> T(Rose), price |-> N(20), variety |-> T(Rose),
     country |-> Undef] }

SeedId(f) == IF f.name = T(<<"M">>) THEN 1 ELSE 2

SeededStore(v) == {NewWine(v, f, SeedId(f)) : f \in WineData}

(***************************************************************************)
(* Requests to the wine routes.                                            *)
(***************************************************************************)
\* request bodies of POST /wines
BodyNames == {T(<<"A">>), T(<<"M">>), Undef}
BodyDescriptions == {T(<<" ","o","k"," ">>), T(<<" ","x"," ">>), S(Run("d", DescMaxLen + 1))}
WineBodies ==
  [ name : BodyNames, description : BodyDescriptions,
    rating : {N(3)}, kind : {T(Red)},
    price : {N(10)}, variety : {T(Red)}, country : {T(<<"F","R">>)} ]
  \cup
  [ name : {T(<<"A">>)}, description : {T(<<" ","o","k"," ">>)},
    rating : {N(3), N(RatingMax + 1), Undef}, kind : {T(Red), T(<<"p","i","n","k">>)},
    price : {N(10)}, variety : {T(Red), Undef}, country : {Undef} ]

\* the :id route parameter: the hex string of ObjectId k, or a malformed one
Malformed == T(<<"x">>)
MaxWineId == Cardinality(WineData) + MaxWineCreates
IdParams == {N(k) : k \in 1..MaxWineId} \cup {Malformed}

\* bodies of PATCH /wines/:id
NewDescriptions ==
  {Undef, T(<<>>), T(<<" ","y"," ">>), T(<<" ","n","e","w"," ">>), S(Run("d", DescMaxLen + 1))}

\* query strings of GET /wines
VarietyParams == {Undef, T(<<"r","e">>), T(<<"r",".">>), T(<<"(">>)}
PriceParams == {Undef, T(<<>>), T(<<"0">>), T(<<"1","0">>), T(<<"1","5">>), T(<<"x">>)}

Err(kind) == [t |-> "error", v |-> kind]

\* a plain text in a response
Text(m) == [t |-> "text", v |-> m]

\* no /secrets request in flight
Idle == [kind |-> "idle", pc |-> "idle", auth |-> Undef, message |-> Undef, user |-> Undef]

\* the body: {} a response starts with
EmptyObject == [t |-> "object"]

\* what a handler sent back: status 0 when it finished without responding
Response(route, arg, status, resp) ==
  [route |-> route, arg |-> arg, status |-> status, resp |-> resp]

NoOutput == Response("none", Undef, 0, Undef)

\* the previous response has left: a handler's outcome is looked at on its own
Ready == out = NoOutput

\* the response (or the silence of a handler that sent none) reaches the client
Deliver ==
  /\ out # NoOutput
  /\ out' = NoOutput
  /\ UNCHANGED <<wineVars, accountVars, secretVars>>

(***************************************************************************)
(* POST /wines                                                             *)
(***************************************************************************)
\* the fields the handler takes from the body and hands to new Wine()
PostWinesFields(v, b) ==
  IF v = "baseline"
  THEN [name |-> b.name, description |-> b.description, rating |-> b.rating,
        kind |-> b.kind, price |-> Undef, variety |-> Undef, country |-> Undef]
  ELSE [name |-> b.name, description |-> b.description, rating |-> b.rating,
        kind |-> Undef, price |-> Undef, variety |-> b.variety, country |-> Undef]

PostWines(b) ==
  LET d == NewWine(variant, PostWinesFields(variant, b), nextWineId)
  IN \E storeOk \in BOOLEAN :
       /\ Ready
       /\ IF storeOk /\ ValidWine(variant, d) /\ NameIndexAdmits(wines, d)
          THEN /\ nextWineId <= MaxWineId
               /\ wines' = wines \cup {d}
               /\ nextWineId' = nextWineId + 1
               /\ out' = Response("POST /wines", b, 201, d)
               /\ UNCHANGED <<variant, accountVars, secretVars>>
          ELSE /\ out' = Response("POST /wines", b, 418,
                            IF ~ValidWine(variant, d) THEN Err("ValidationError")
                            ELSE IF ~storeOk THEN Err("StoreError")
                            ELSE Err("E11000 duplicate key"))
               /\ UNCHANGED <<wineVars, accountVars, secretVars>>

(***************************************************************************)
(* GET /wines                                                              *)
(***************************************************************************)
\* new RegExp(variety): the pattern's source; undefined gives the empty pattern
VarietyRegex(variety) == IF IsStr(variety) THEN Chars(variety.v) ELSE <<>>

\* new RegExp throws a SyntaxError on an unterminated group
RegexThrows(src) == \E i \in 1..Len(src) : src[i] = "("

\* RegExp.prototype.test for patterns of literal characters and the wildcard "."
RegexTest(src, str) ==
  \E i \in 0..(Len(str) - Len(src)) :
    \A j \in 1..Len(src) : src[j] = "." \/ src[j] = str[i + j]

\* price ? price : 0
PriceQuery(price) == IF IsStr(price) /\ StrLen(price.v) > 0 THEN price ELSE N(0)

Digit(c) ==
  CASE c = "0" -> 0 [] c = "1" -> 1 [] c = "2" -> 2 [] c = "3" -> 3 [] c = "4" -> 4
    [] c = "5" -> 5 [] c = "6" -> 6 [] c = "7" -> 7 [] c = "8" -> 8 [] c = "9" -> 9

IsDigits(s) == s # <<>> /\ \A i \in 1..Len(s) : s[i] \in {"0","1","2","3","4","5","6","7","8","9"}

RECURSIVE ParseDigits(_)
ParseDigits(s) ==
  IF s = <<>> THEN 0
  ELSE 10 * ParseDigits(SubSeq(s, 1, Len(s) - 1)) + Digit(s[Len(s)])

\* the query caster of a Number path: a CastError unless the value is numeric
CastsToNumber(x) == IsNum(x) \/ (IsStr(x) /\ IsDigits(Chars(x.v)))
CastNumber(x) == IF IsNum(x) THEN x.v ELSE ParseDigits(Chars(x.v))

\* the filter with $gte in place of $gt
MatchesFilter_Gte(w, src, threshold) ==
  /\ IsStr(w.variety) /\ RegexTest(src, Chars(w.variety.v))
  /\ IsNum(w.price) /\ w.price.v >= threshold

\* { variety: varietyRegex, price: { $gt: threshold } } on one document
MatchesFilter(w, src, threshold) ==
  /\ IsStr(w.variety) /\ RegexTest(src, Chars(w.variety.v))
  /\ IsNum(w.price) /\ w.price.v > threshold

GetWines(q) ==
  \E storeOk \in BOOLEAN :
    /\ Ready
    /\ out' =
         IF variant = "baseline"
         THEN IF storeOk THEN Response("GET /wines", q, 200, wines)
              ELSE Response("GET /wines", q, 0, Err("unhandled rejection"))
         ELSE IF RegexThrows(VarietyRegex(q.variety))
              THEN Response("GET /wines", q, 0, Err("unhandled rejection"))
              ELSE IF ~storeOk \/ ~CastsToNumber(PriceQuery(q.price))
              THEN Response("GET /wines", q, 500, EmptyObject)
              ELSE Response("GET /wines", q, 200,
                     {w \in wines : MatchesFilter(w, VarietyRegex(q.variety),
                                                  CastNumber(PriceQuery(q.price)))})
    /\ UNCHANGED <<wineVars, accountVars, secretVars>>

(***************************************************************************)
(* PATCH, GET and DELETE /wines/:id                                        *)
(***************************************************************************)
\* casting the :id parameter to an ObjectId: a CastError when malformed
CastsToObjectId(id) == IsNum(id)

\* findById on the wines collection: the document, or null
FindWineById(store, id) ==
  IF \E w \in store : w.id = id.v
  THEN CHOOSE w \in store : w.id = id.v
  ELSE Null

\* the update { description: newDescription }, cast by the schema: the
\* setter (trim) runs, the validators do not (runValidators is not set).
\* An undefined value is sent as null or dropped from the update,
\* depending on the mongoose release.
UpdatedWine(w, nd, undefinedAsNull) ==
  IF nd = Undef
  THEN IF undefinedAsNull THEN [w EXCEPT !.description = Null] ELSE w
  ELSE [w EXCEPT !.description = TrimSetter(nd)]

PatchWine(id, nd) ==
  \E storeOk \in BOOLEAN, undefinedAsNull \in BOOLEAN :
    LET arg == [id |-> id, newDescription |-> nd]
    IN /\ Ready
       /\ IF ~CastsToObjectId(id) \/ ~storeOk
          THEN /\ out' = Response("PATCH /wines/:id", arg, 400,
                            IF ~CastsToObjectId(id) THEN Err("CastError")
                            ELSE Err("StoreError"))
               /\ UNCHANGED <<wineVars, accountVars, secretVars>>
          ELSE LET w == FindWineById(wines, id)
               IN IF w = Null
                  THEN /\ out' = Response("PATCH /wines/:id", arg, 200, Null)
                       /\ UNCHANGED <<wineVars, accountVars, secretVars>>
                  ELSE /\ wines' = (wines \ {w}) \cup {UpdatedWine(w, nd, undefinedAsNull)}
                       /\ out' = Response("PATCH /wines/:id", arg, 200,
                                          UpdatedWine(w, nd, undefinedAsNull))
                       /\ UNCHANGED <<variant, nextWineId, accountVars, secretVars>>

GetWine(id) ==
  \E storeOk \in BOOLEAN :
    /\ Ready
    /\ out' =
         IF ~CastsToObjectId(id) \/ ~storeOk
         THEN Response("GET /wines/:id", id, 400,
                IF ~CastsToObjectId(id) THEN Err("CastError") ELSE Err("StoreError"))
         ELSE Response("GET /wines/:id", id, 200, FindWineById(wines, id))
    /\ UNCHANGED <<wineVars, accountVars, secretVars>>

DeleteWine(id) ==
  \E storeOk \in BOOLEAN :
    /\ Ready
    /\ IF ~CastsToObjectId(id) \/ ~storeOk
       THEN /\ out' = Response("DELETE /wines/:id", id, 400,
                         IF ~CastsToObjectId(id) THEN Err("CastError")
                         ELSE Err("StoreError"))
            /\ UNCHANGED <<wineVars, accountVars, secretVars>>
       ELSE /\ wines' = wines \ {FindWineById(wines, id)}
            /\ out' = Response("DELETE /wines/:id", id, 200, FindWineById(wines, id))
            /\ UNCHANGED <<variant, nextWineId, accountVars, secretVars>>

(***************************************************************************)
(* The wine catalog: both deployments, from an empty or a seeded store.    *)
(***************************************************************************)
WineInit ==
  /\ variant \in {"baseline", "extended"}
  /\ wines \in {{}, SeededStore(variant)}
  /\ nextWineId = Cardinality(wines) + 1
  /\ users = {} /\ nextUserId = 1
  /\ secrets = {} /\ nextSecretId = 1
  /\ reqs = [s \in Slots |-> Idle]
  /\ out = NoOutput

WineNext ==
  \/ \E b \in WineBodies : PostWines(b)
  \/ \E q \in [variety : VarietyParams, price : PriceParams] : GetWines(q)
  \/ \E id \in IdParams, nd \in NewDescriptions : PatchWine(id, nd)
  \/ \E id \in IdParams : GetWine(id)
  \/ \E id \in IdParams : DeleteWine(id)
  \/ Deliver

WineSpec == WineInit /\ [][WineNext]_vars

(***************************************************************************)
(* Users: the User schema, bcrypt and the access token.                    *)
(***************************************************************************)
UsernameMinLen == 2
UsernameMaxLen == 20
PasswordMinLen == 5
\* the length of the string bcrypt.hashSync returns
BcryptHashLen == 60
\* crypto.randomBytes(128)
TokenBytes == 128

HexDigit(k) == <<"1","2","3","4","5","6","7","8","9","a","b","c","d","e","f">>[k]

\* the hex string of the k-th ObjectId the store hands out
ObjectIdHex(k) == S(<< <<"0", 23>>, <<HexDigit(k), 1>> >>)

\* crypto.randomBytes(128).toString('hex'): the k-th token drawn; two draws
\* never coincide
Token(k) == S(<< <<"0", 2 * TokenBytes - 1>>, <<HexDigit(k), 1>> >>)

\* bcrypt.hashSync(password, salt): kept symbolically, a string of 60 characters
HashSync(password, salt) == [t |-> "bcrypt", salt |-> salt, of |-> password]

\* bcrypt throws unless the data is a string
BcryptThrows(password) == ~IsStr(password)

\* bcrypt.compareSync(password, hash)
CompareSync(password, hash) == hash.of = password

\* minlength of the password path: it sees the stored value, the hash
StoredLength(x) == IF x.t = "bcrypt" THEN BcryptHashLen ELSE StrLen(x.v)
PasswordLongEnough(stored) == StoredLength(stored) >= PasswordMinLen

\* new User({ username, password: hash }) with the _id and the token it gets
NewUser(username, hash, k) ==
  [id |-> k, username |-> username, password |-> hash, accessToken |-> Token(k)]

ValidUser(u) ==
  /\ Required(u.username)
  /\ LengthIn(u.username, UsernameMinLen, UsernameMaxLen)
  /\ u.password # Undef /\ u.password # Null
  /\ PasswordLongEnough(u.password)

\* the unique index on username
UsernameIndexAdmits(store, u) == \A w \in store : w.username # u.username

\* User.findOne({ username }): an undefined username is sent as null and
\* matches no document, every user having one
FindUserByName(store, username) ==
  IF \E u \in store : u.username = username
  THEN CHOOSE u \in store : u.username = username
  ELSE Null

\* User.findOne({ accessToken }): likewise for a missing header
FindUserByToken(store, token) ==
  IF \E u \in store : u.accessToken = token
  THEN CHOOSE u \in store : u.accessToken = token
  ELSE Null

\* bcrypt.genSaltSync(): the salt drawn for the k-th user; fresh on every call
GenSaltSync(k) == [t |-> "salt", v |-> k]

(***************************************************************************)
(* POST /register and POST /login                                          *)
(***************************************************************************)
Register(username, password) ==
  \E storeOk \in BOOLEAN :
    LET arg == [username |-> username, password |-> password]
        salt == GenSaltSync(nextUserId)
        u == NewUser(username, HashSync(password, salt), nextUserId)
    IN /\ Ready
       /\ IF BcryptThrows(password)
          THEN /\ out' = Response("POST /register", arg, 400, Err("bcrypt: data required"))
               /\ UNCHANGED <<wineVars, accountVars, secretVars>>
          ELSE IF ~ValidUser(u) \/ ~storeOk \/ ~UsernameIndexAdmits(users, u)
          THEN /\ out' = Response("POST /register", arg, 400,
                            IF ~ValidUser(u) THEN Err("ValidationError")
                            ELSE IF ~storeOk THEN Err("StoreError")
                            ELSE Err("E11000 duplicate key"))
               /\ UNCHANGED <<wineVars, accountVars, secretVars>>
          ELSE /\ users' = users \cup {u}
               /\ nextUserId' = nextUserId + 1
               /\ out' = Response("POST /register", arg, 201,
                            [username |-> u.username, id |-> u.id,
                             accessToken |-> u.accessToken])
               /\ UNCHANGED <<wineVars, secretVars>>

Login(username, password) ==
  \E storeOk \in BOOLEAN :
    LET arg == [username |-> username, password |-> password]
        user == FindUserByName(users, username)
    IN /\ Ready
       /\ out' =
            IF ~storeOk THEN Response("POST /login", arg, 500, Err("StoreError"))
            ELSE IF user = Null THEN Response("POST /login", arg, 404, Text("User not found"))
            ELSE IF BcryptThrows(password)
            THEN Response("POST /login", arg, 500, Err("bcrypt: data required"))
            ELSE IF CompareSync(password, user.password)
            THEN Response("POST /login", arg, 200,
                   [username |-> user.username, id |-> user.id,
                    accessToken |-> user.accessToken])
            ELSE Response("POST /login", arg, 404, Text("User not found"))
       /\ UNCHANGED <<wineVars, accountVars, secretVars>>

\* request bodies of /register and /login
Usernames == {Undef, S(Run("a", UsernameMinLen - 1)), S(Run("a", UsernameMinLen)),
              S(Run("b", UsernameMaxLen)), S(Run("c", UsernameMaxLen + 1))}
Passwords == {Undef, S(Run("p", PasswordMinLen - 1)), S(Run("q", PasswordMinLen))}

(***************************************************************************)
(* Properties of the wine catalog.                                         *)
(***************************************************************************)
\* C4: wine names are unique in every reachable store state, and a POST /wines
\* whose name is already stored fails with the creation-failed outcome (418)
\* and leaves the store as it was.
C4_NamesUnique ==
  /\ [](\A w1 \in wines, w2 \in wines : w1.name = w2.name => w1 = w2)
  /\ [][ (out'.route = "POST /wines" /\ \E w \in wines : w.name = out'.arg.name)
          => (out'.status = 418 /\ wines' = wines) ]_vars

\* a duplicate create was refused by the index while its name stays stored once
C4_Witness ==
  /\ out.route = "POST /wines" /\ out.status = 418
  /\ out.resp = Err("E11000 duplicate key")
  /\ Cardinality({w \in wines : w.name = out.arg.name}) = 1

\* C5: GET /wines without query parameters answers with every wine in the
\* store (an empty list when the store is empty), records created through
\* POST /wines included.
C5_ListReturnsAll ==
  (out.route = "GET /wines" /\ out.arg.variety = Undef /\ out.arg.price = Undef
     /\ out.status \notin {0, 500})
  => (out.status = 200 /\ out.resp = wines)

\* str contains sub as a substring
Contains(str, sub) ==
  \E i \in 0..(Len(str) - Len(sub)) : SubSeq(str, i + 1, i + Len(sub)) = sub

\* the variety pattern and the price threshold a GET /wines request carries
PatternOf(q) == IF q.variety = Undef THEN <<>> ELSE Chars(q.variety.v)
ThresholdOf(q) == IF q.price = Undef THEN 0 ELSE ParseDigits(Chars(q.price.v))

\* the records whose variety contains the pattern and whose price exceeds the threshold
ContainingAndAbove(store, q) ==
  {w \in store : /\ IsStr(w.variety) /\ Contains(Chars(w.variety.v), PatternOf(q))
                 /\ IsNum(w.price) /\ w.price.v > ThresholdOf(q)}

FilteredList ==
  /\ variant = "extended"
  /\ out.route = "GET /wines" /\ out.status = 200
  /\ out.arg.price # T(<<>>)

IsLiteral(pattern) == \A i \in 1..Len(pattern) : pattern[i] \notin {".", "("}

\* C6 as claimed: GET /wines with pattern V and threshold T answers with exactly
\* the records whose variety contains V and whose price is above T, an omitted
\* threshold counting as 0.
C6_FilterContains ==
  FilteredList => out.resp = ContainingAndAbove(wines, out.arg)

\* C6 amended: the same, for a pattern V free of regular-expression
\* metacharacters (V is compiled as a regular expression, not searched as text).
C6_FilterContainsLiteral ==
  (FilteredList /\ IsLiteral(PatternOf(out.arg)))
  => out.resp = ContainingAndAbove(wines, out.arg)

\* a literal pattern and a threshold kept some records and dropped others
C6_Witness ==
  /\ FilteredList
  /\ out.arg.variety = T(<<"r","e">>) /\ out.arg.price = T(<<"0">>)
  /\ out.resp # {} /\ out.resp # wines

\* the fields a client supplies to POST /wines in each deployment
SuppliedFieldsKept(v, b, d) ==
  /\ d.name = b.name
  /\ d.description = TrimSetter(b.description)
  /\ IF v = "baseline"
     THEN d.rating = b.rating /\ d.kind = b.kind
     ELSE d.price = b.price /\ d.variety = b.variety /\ d.country = b.country

\* C7: after a successful POST /wines, GET /wines/:id on the returned id
\* answers with the stored record, and that record equals the input in every
\* client-supplied field and carries a generated id and timestamp.
C7_CreateThenGetById ==
  /\ (out.route = "POST /wines" /\ out.status = 201)
       => LET d == FindWineById(wines, N(out.resp.id))
          IN /\ d # Null
             /\ SuppliedFieldsKept(variant, out.arg, d)
             /\ d.createdAt # Undef
  /\ (out.route = "GET /wines/:id" /\ out.status = 200)
       => out.resp = FindWineById(wines, out.arg)

\* C10: every stored wine has a description that is present, trimmed and of
\* length in [2,300].
C10_DescriptionValid ==
  \A w \in wines :
    /\ DescriptionValid(w.description)
    /\ w.description = TrimSetter(w.description)

(***************************************************************************)
(* The Authentication Gate and the /secrets routes.  A request holds a     *)
(* slot from its arrival until its handler finishes:                       *)
(*   "gate"     authenticateUser awaits User.findOne                       *)
(*   "handler"  the route handler awaits its own User.findOne              *)
(*   "found"    the handler awaits Secret.find or save()                   *)
(***************************************************************************)
SecretRoutes == {"GET /secrets", "POST /secrets"}

FreeSlots == {s \in Slots : reqs[s] = Idle}

SetMin(A) == CHOOSE x \in A : \A y \in A : x <= y

PendingPosts == {s \in Slots : reqs[s].kind = "POST /secrets"}

SecretArg(r) == [auth |-> r.auth, message |-> r.message]

\* the request arrives and authenticateUser starts its lookup
ReceiveSecrets(kind, auth, message) ==
  /\ Ready
  /\ FreeSlots # {}
  /\ kind = "POST /secrets" => nextSecretId + Cardinality(PendingPosts) <= MaxSecrets
  /\ reqs' = [reqs EXCEPT ![SetMin(FreeSlots)] =
                [kind |-> kind, pc |-> "gate", auth |-> auth,
                 message |-> message, user |-> Undef]]
  /\ UNCHANGED <<wineVars, accountVars, secrets, nextSecretId, out>>

\* the credential belongs to a stored user
GateAccepts(store, token) == FindUserByToken(store, token) # Null

\* a gate that lets every request through
GateAdmits_Always(user) == TRUE

\* if (user)
GateAdmits(user) == user # Null

\* authenticateUser: next() for a known token, 401 otherwise and on a failed lookup
AuthenticateUser(s) ==
  \E storeOk \in BOOLEAN :
    /\ Ready
    /\ reqs[s].pc = "gate"
    /\ IF storeOk /\ GateAdmits(FindUserByToken(users, reqs[s].auth))
       THEN /\ reqs' = [reqs EXCEPT ![s].pc = "handler"]
            /\ UNCHANGED out
       ELSE /\ reqs' = [reqs EXCEPT ![s] = Idle]
            /\ out' = Response(reqs[s].kind, SecretArg(reqs[s]), 401,
                         IF storeOk THEN Text("Not authorized") ELSE Err("StoreError"))
    /\ UNCHANGED <<wineVars, accountVars, secrets, nextSecretId>>

\* a handler's await rejects outside any try: no response is ever sent
Unhandled(r) == Response(r.kind, SecretArg(r), 0, Err("unhandled rejection"))

\* const user = await User.findOne({ accessToken })
HandlerFindUser(s) ==
  \E storeOk \in BOOLEAN :
    /\ Ready
    /\ reqs[s].pc = "handler"
    /\ IF storeOk
       THEN /\ reqs' = [reqs EXCEPT ![s].pc = "found",
                                    ![s].user = FindUserByToken(users, reqs[s].auth)]
            /\ UNCHANGED out
       ELSE /\ reqs' = [reqs EXCEPT ![s] = Idle]
            /\ out' = Unhandled(reqs[s])
    /\ UNCHANGED <<wineVars, accountVars, secrets, nextSecretId>>

\* a find that forgets the user filter
SecretsOfUser_All(store, userId) == store

\* Secret.find({ user: user._id }): the id is cast to the String path
SecretsOfUser(store, userId) == {x \in store : x.user = ObjectIdHex(userId)}

\* GET /secrets: the caller's secrets, 200
GetSecrets(s) ==
  \E storeOk \in BOOLEAN :
    /\ Ready
    /\ reqs[s].kind = "GET /secrets" /\ reqs[s].pc = "found"
    /\ reqs' = [reqs EXCEPT ![s] = Idle]
    /\ out' = IF reqs[s].user = Null \/ ~storeOk
              THEN Unhandled(reqs[s])
              ELSE Response("GET /secrets", SecretArg(reqs[s]), 200,
                            SecretsOfUser(secrets, reqs[s].user.id))
    /\ UNCHANGED <<wineVars, accountVars, secrets, nextSecretId>>

\* new Secret({ message, user: user._id })
NewSecret(message, userId, k) ==
  [id |-> k, message |-> message, user |-> ObjectIdHex(userId)]

\* POST /secrets: the secret is saved and the handler returns; it sends nothing
PostSecrets(s) ==
  \E storeOk \in BOOLEAN :
    /\ Ready
    /\ reqs[s].kind = "POST /secrets" /\ reqs[s].pc = "found"
    /\ reqs' = [reqs EXCEPT ![s] = Idle]
    /\ IF reqs[s].user = Null \/ ~storeOk
       THEN /\ out' = Unhandled(reqs[s])
            /\ UNCHANGED <<secrets, nextSecretId>>
       ELSE /\ secrets' = secrets \cup
                            {NewSecret(reqs[s].message, reqs[s].user.id, nextSecretId)}
            /\ nextSecretId' = nextSecretId + 1
            /\ out' = Response("POST /secrets", SecretArg(reqs[s]), 0, Undef)
    /\ UNCHANGED <<wineVars, accountVars>>

\* the credentials a client may present: none, or a token; a token is unknown
\* to the gate until the user it will belong to registers
GoodUsernames == {S(Run("a", UsernameMinLen)), S(Run("b", UsernameMaxLen))}
AuthHeaders == {Undef} \cup {Token(k) : k \in 1..Cardinality(GoodUsernames)}
Messages == {Undef, T(<<"h","i">>)}

SecretInit ==
  /\ variant = "extended"
  /\ wines = {} /\ nextWineId = 1
  /\ users = {} /\ nextUserId = 1
  /\ secrets = {} /\ nextSecretId = 1
  /\ reqs = [s \in Slots |-> Idle]
  /\ out = NoOutput

SecretNext ==
  \/ \E u \in GoodUsernames : Register(u, S(Run("q", PasswordMinLen)))
  \/ \E a \in AuthHeaders : ReceiveSecrets("GET /secrets", a, Undef)
  \/ \E a \in AuthHeaders, m \in Messages : ReceiveSecrets("POST /secrets", a, m)
  \/ \E s \in Slots : AuthenticateUser(s)
  \/ \E s \in Slots : HandlerFindUser(s)
  \/ \E s \in Slots : GetSecrets(s)
  \/ \E s \in Slots : PostSecrets(s)
  \/ Deliver

SecretSpec == SecretInit /\ [][SecretNext]_vars

(***************************************************************************)
(* Accounts: registration and login.                                       *)
(***************************************************************************)
AccountInit ==
  /\ variant = "extended"
  /\ wines = {} /\ nextWineId = 1
  /\ users = {} /\ nextUserId = 1
  /\ secrets = {} /\ nextSecretId = 1
  /\ reqs = [s \in Slots |-> Idle]
  /\ out = NoOutput

AccountNext ==
  \/ \E u \in Usernames, p \in Passwords : Register(u, p)
  \/ \E u \in Usernames, p \in Passwords : Login(u, p)
  \/ Deliver

AccountSpec == AccountInit /\ [][AccountNext]_vars

IsRegistered(username) == \E u \in users : u.username = username

\* C8: a login with a registered username and a wrong password (a missing one
\* included) gets what a login with an unknown username gets: 404, 'User not found'.
C8_LoginSameOutcome ==
  (/\ out.route = "POST /login" /\ out.resp # Err("StoreError")
   /\ IsRegistered(out.arg.username)
   /\ \A u \in users : u.username = out.arg.username => u.password.of # out.arg.password)
  => (out.status = 404 /\ out.resp = Text("User not found"))

\* what the claim rules out: a taken username, a username length outside
\* [2,20], a plaintext password shorter than 5
BadRegistration(arg, store) ==
  \/ \E u \in store : u.username = arg.username
  \/ ~(IsStr(arg.username) /\ UsernameMinLen <= StrLen(arg.username.v)
                           /\ StrLen(arg.username.v) <= UsernameMaxLen)
  \/ ~(IsStr(arg.password) /\ StrLen(arg.password.v) >= PasswordMinLen)

\* C9: a registration with a taken username, a username length outside [2,20]
\* or a plaintext password shorter than 5 fails with a client error and stores
\* no user; any other succeeds with 201 and a token the gate accepts.
C9_RegisterValidates ==
  [][ (out'.route = "POST /register" /\ out'.resp # Err("StoreError"))
      => IF BadRegistration(out'.arg, users)
         THEN out'.status = 400 /\ users' = users
         ELSE out'.status = 201 /\ GateAccepts(users', out'.resp.accessToken) ]_vars


(***************************************************************************)
(* Properties of the gate and the /secrets routes.                         *)
(***************************************************************************)
\* C1: a /secrets request whose Authorization header is missing or no stored
\* user's token is answered 401 and never reaches the protected handler: no
\* handler step runs for it, it is sent no secrets and it creates none.
C1_GateRejects ==
  /\ [](/\ \A s \in Slots :
             reqs[s].pc \in {"handler", "found"} => GateAccepts(users, reqs[s].auth)
        /\ (out.route \in SecretRoutes /\ ~GateAccepts(users, out.arg.auth))
             => (out.status = 401
                 /\ out.resp \in {Text("Not authorized"), Err("StoreError")}))
  /\ [][secrets' # secrets => GateAccepts(users, out'.arg.auth)]_vars

\* a request carrying a token nobody holds was turned away while secrets exist
C1_Witness ==
  /\ out.route = "GET /secrets" /\ out.status = 401
  /\ out.arg.auth # Undef /\ ~GateAccepts(users, out.arg.auth)
  /\ secrets # {}

\* the id of the user holding the token
OwnerId(token) == (CHOOSE u \in users : u.accessToken = token).id

\* C2: a GET /secrets made with U's token answers with exactly the secrets
\* whose user reference is U's id, and every secret POST /secrets stores is
\* owned by the caller and carries the caller's message.
C2_OwnSecretsOnly ==
  /\ []((out.route = "GET /secrets" /\ out.status = 200)
         => out.resp = {x \in secrets : x.user = ObjectIdHex(OwnerId(out.arg.auth))})
  /\ [][\A x \in secrets' \ secrets :
           /\ out'.route = "POST /secrets"
           /\ x.user = ObjectIdHex(OwnerId(out'.arg.auth))
           /\ x.message = out'.arg.message]_vars

\* a user read back their own secret while another user's was in the store
C2_Witness ==
  /\ out.route = "GET /secrets" /\ out.status = 200
  /\ out.resp # {} /\ out.resp # secrets

\* C3: a POST /secrets that passed the gate is answered 201 with the created
\* secret once the secret is stored.
C3_PostSecretsAnswered ==
  (/\ out.route = "POST /secrets" /\ out.status # 401
   /\ out.resp # Err("unhandled rejection"))
  => (out.status = 201 /\ out.resp \in secrets)

\* C11: a store call that fails inside a route handler is caught there and
\* answered with a server error (status 500) for that request: no request
\* ends in an unhandled rejection without a response.  The 401 is the
\* gate's own answer to a failed lookup, sent before any handler runs.
C11_StoreFailuresCaught ==
  /\ out.resp # Err("unhandled rejection")
  /\ (out.resp = Err("StoreError") /\ out.status # 401) => out.status = 500

====
